---- MODULE Spec2Model ----
(***************************************************************************)
(* Live-map reconciliation layer of the EcoRide admin dashboard:           *)
(*   - SignalRProvider (src/src/context/SignalRContext.tsx): the hub       *)
(*     connection, the exposed connection state, the toast and the         *)
(*     cache-invalidation bridge;                                          *)
(*   - AdminLiveMap (components/AdminLiveMap): the Location Cache          *)
(*     locationsByDriverId, the driver and live-ride snapshots, the        *)
(*     derived markers and heat points, and the HeatLayer;                 *)
(*   - DashboardPage (src/src/pages/DashboardPage.tsx): the stats query    *)
(*     whose error replaces the page;                                      *)
(*   - useDriverUpdates and resolveHubBaseUrl of SignalRContext.tsx.       *)
(* One action is one React commit, one hub lifecycle signal, one pushed    *)
(* event, one timer expiry, one poll result or one click.                  *)
(***************************************************************************)
EXTENDS Integers, Sequences, FiniteSets, TLC

\* ------------------------------------------------------------------ bounds
MaxConns == 2        \* hub connections built in one run
MaxDrivers == 2      \* length of a polled driver snapshot
MaxNow == 1          \* Date.now() readings are 0..MaxNow
MaxReconnects == 1   \* connection losses per run
MaxRides == 2        \* length of a polled live-ride snapshot
MaxZoom == 18        \* the map's zoom levels are 0..MaxZoom
MaxEnvSlashes == 2   \* trailing slashes of a configured URL

\* ------------------------------------------------------------ value domains
Conns == 1..MaxConns
NoConn == 0
Ids == {"D1", "D2"}
Statuses == {"offline", "online", "busy", "on_trip"}
Coords == {<<-15, 35>>, <<-13, 33>>}
Times == 0..MaxNow

DriverEventTypes == {"DriverRegistered", "DriverApproved", "DriverRejected", "DriverStatusChanged"}
LocationEventType == "DriverLocationUpdated"
DriverEvents == [type : DriverEventTypes, id : Ids]
LocationEvents == {[type |-> LocationEventType, driverId |-> i, latitude |-> p[1], longitude |-> p[2]] :
                     i \in Ids, p \in Coords}
Events == DriverEvents \cup LocationEvents
NoEvent == [type |-> "none"]
NoToast == "none"

RECURSIVE SeqsUpTo(_, _)
SeqsUpTo(S, n) ==
  IF n = 0 THEN {<< >>}
  ELSE LET shorter == SeqsUpTo(S, n - 1)
       IN shorter \cup {Append(s, x) : s \in {q \in shorter : Len(q) = n - 1}, x \in S}

DriverRecords == [id : Ids, status : Statuses]
Snapshots == SeqsUpTo(DriverRecords, MaxDrivers)

\* a JSON value read where a number is expected
Num(n) == [kind |-> "number", value |-> n]
NaN == [kind |-> "NaN"]
Undefined == [kind |-> "undefined"]
OriginLatitudes == {Num(-15), NaN}
OriginLongitudes == {Num(35), Undefined}
RideRecords == [originLatitude : OriginLatitudes, originLongitude : OriginLongitudes]
LiveRideSnapshots == SeqsUpTo(RideRecords, MaxRides)

MinZoom == 0
Zooms == MinZoom..MaxZoom
InitialZoom == 12

NoId == "undefined"
NoDeps == << >>
NoRoom == [joined |-> FALSE]

\* A string is the sequence of its pieces; an environment variable is unset
\* or holds a string.
Unset == [set |-> FALSE, text |-> << >>]
Str(t) == [set |-> TRUE, text |-> t]
RECURSIVE WithSlashes(_, _)
WithSlashes(t, n) == IF n = 0 THEN t ELSE Append(WithSlashes(t, n - 1), "/")
Slashes == 0..MaxEnvSlashes
HubApiUrlValues ==
  {Unset, Str(<< >>)} \cup {Str(WithSlashes(<<"https://", "push.example", "/hubs">>, n)) : n \in Slashes}
HubUrlValues ==
  {Unset, Str(<< >>)} \cup {Str(WithSlashes(<<"wss://", "alt.example", "/hubs">>, n)) : n \in Slashes}
ApiUrlTexts ==
  {<<"https://", "api.example", "/api">>, <<"HTTP://", "api.example", "/API">>,
   <<"https://", "api.example">>, <<"https://", "api.example", "/api", "/v1">>, <<"/api">>}
ApiUrlValues ==
  {Unset, Str(<< >>)} \cup {Str(WithSlashes(t, n)) : t \in ApiUrlTexts, n \in Slashes}
Envs == [VITE_HUB_API_URL : HubApiUrlValues, VITE_HUB_URL : HubUrlValues, VITE_API_URL : ApiUrlValues]
NoEnv == [VITE_HUB_API_URL |-> Unset, VITE_HUB_URL |-> Unset, VITE_API_URL |-> Unset]
Unresolved == <<"unresolved">>

\* ------------------------------------------------------------------- state
VARIABLES
  strictMode,           \* the root renders under React.StrictMode with double-invoked effects
  providerMounted,      \* a SignalRProvider instance is mounted
  connection,           \* SignalRProvider state `connection` (NoConn = null)
  connectionState,      \* SignalRProvider state `connectionState`
  hub,                  \* the HubConnection objects' own state, per connection built
  live,                 \* connections whose callbacks close over the mounted provider instance
  everConnected,        \* connections whose start() resolved
  reconnects,           \* connection losses so far
  toast,                \* SignalRProvider state `toast` (its title)
  toastTimer,           \* toastTimeoutRef.current holds a pending window.setTimeout of showToast
  staleTimers,          \* pending showToast timeouts that toastTimeoutRef.current does not hold
  lastEvent,            \* the push event most recently dispatched to the bridge handlers
  invalidated,          \* the query keys that event's handler passed to invalidateQueries
  mapMounted,           \* an AdminLiveMap instance is mounted
  mapConn,              \* the connection the map's onLocation is registered on
  locationsByDriverId,  \* AdminLiveMap state: the Location Cache
  lastDelivered,        \* per id, the coordinates of the last event handed to onLocation
  overwrote,            \* an event replaced an entry of the mounted map by other coordinates
  heatMode,             \* AdminLiveMap state `heatMode`
  mapCity,              \* DashboardPage state `mapCity`
  drivers,              \* driversResponse?.drivers ?? [] of the ['drivers', ...] query
  disposedWrite,        \* a callback or timer ran against an unmounted instance
  env,                  \* import.meta.env: the three URL variables
  hubBaseUrl,           \* the provider effect's const hubBaseUrl
  viewMounted,          \* a detail view calling useDriverUpdates is mounted
  viewDriverId,         \* the driverId the view passes to the hook
  roomDeps,             \* [connection, isConnected, driverId] of the hook effect's last run
  roomJoined,           \* the hook effect run whose cleanup is pending
  openJoins,            \* per id, JoinDriverRoom messages sent minus LeaveDriverRoom messages sent
  openCalls,            \* per id, invoke('JoinDriverRoom') calls minus invoke('LeaveDriverRoom') calls
  liveRides,            \* liveRides?.rides ?? [] of the ['adminLiveRides', {limit: 100}] query
  statsError,           \* DashboardPage: the ['adminStats'] query is in its error state
  zoom,                 \* map.getZoom() of the mounted map
  memoAvailable,        \* the useMemo value availableMarkers of the last render
  memoEngaged,          \* the useMemo value engagedMarkers of the last render
  heatPoints,           \* the useMemo value heatPoints of the last render
  heatLayers,           \* heat layers on the map
  zoomListeners,        \* zoomend listeners registered by HeatLayer
  layerRadius,          \* the radius option of the heat layer, in tenths of a pixel
  adminJoins,           \* JoinAdminRoom messages written to each connection
  auth,                 \* AuthProvider state, the two local-storage keys and the router location
  approval,             \* approveDriver calls of the pending-approvals page, its error and the
                        \* query groups its mutation invalidated
  sidebar               \* useSidebar state, the viewport and the persisted key

connVars == <<connection, connectionState, hub, live, everConnected, reconnects>>
toastVars == <<toast, toastTimer, staleTimers>>
bridgeVars == <<lastEvent, invalidated>>
mapVars == <<mapMounted, mapConn, locationsByDriverId, lastDelivered, overwrote, heatMode>>
urlVars == <<env, hubBaseUrl>>
roomVars == <<viewMounted, viewDriverId, roomDeps, roomJoined, openJoins, openCalls>>
derivedVars == <<memoAvailable, memoEngaged, heatPoints, heatLayers, zoomListeners, layerRadius>>
dashVars == <<liveRides, statsError, zoom, derivedVars>>
pageVars == <<auth, approval, sidebar>>
signalVars == <<strictMode, providerMounted, connection, connectionState, hub, live, everConnected,
          reconnects, toastVars, lastEvent, invalidated, mapMounted, mapConn,
          locationsByDriverId, lastDelivered, overwrote, heatMode, mapCity, drivers, disposedWrite,
          urlVars, roomVars, dashVars, adminJoins>>
vars == <<signalVars, pageVars>>

EmptyCache == [i \in {} |-> 0]
NoneDelivered == [i \in Ids |-> << >>]

\* -------------------------------------------------- Marker/Heat Projector
ToLowerCase(s) ==
  CASE s = "Online" -> "online"
    [] s = "ON_TRIP" -> "on_trip"
    [] OTHER -> s

\* the status filter of availableMarkers left out
IsAvailableAny(d) == TRUE

\* the status compared without lower-casing it
IsAvailableExactCase(d) == d.status = "online"

IsAvailable(d) == ToLowerCase(d.status) = "online"

\* the engaged filter also accepting online drivers
IsEngagedOrOnline(d) ==
  LET s == ToLowerCase(d.status) IN s = "busy" \/ s = "on_trip" \/ s = "online"

IsEngaged(d) ==
  LET s == ToLowerCase(d.status) IN s = "busy" \/ s = "on_trip"

NullMarker == [id |-> "null"]

\* the .map callback: null when the cache has no entry for the driver
MarkerOf(d, locs) ==
  IF d.id \notin DOMAIN locs
  THEN NullMarker
  ELSE [id |-> d.id, position |-> <<locs[d.id].latitude, locs[d.id].longitude>>]

IsMarker(m) == m # NullMarker

\* drivers.filter(status).map(marker or null).filter(Boolean)
MarkersOf(filtered, locs) ==
  SelectSeq([i \in DOMAIN filtered |-> MarkerOf(filtered[i], locs)], IsMarker)

AvailableMarkers(ds, locs) == MarkersOf(SelectSeq(ds, IsAvailable), locs)

EngagedMarkers(ds, locs) == MarkersOf(SelectSeq(ds, IsEngaged), locs)

availableMarkers == AvailableMarkers(drivers, locationsByDriverId)
engagedMarkers == EngagedMarkers(drivers, locationsByDriverId)

MarkerIds(ms) == {ms[i].id : i \in DOMAIN ms}

\* Number.isFinite: true of finite numbers only
NumberIsFinite(x) == x.kind = "number"

HasFiniteOrigin(r) == NumberIsFinite(r.originLatitude) /\ NumberIsFinite(r.originLongitude)

\* heat weights, in tenths: 1, 0.4 and 1
EngagedWeight == 10
AvailableWeight == 4
DemandWeight == 10

DemandPoints(rides) ==
  LET valid == SelectSeq(rides, HasFiniteOrigin)
  IN [i \in DOMAIN valid |->
        <<valid[i].originLatitude.value, valid[i].originLongitude.value, DemandWeight>>]

WeightedPoints(ms, w) == [i \in DOMAIN ms |-> <<ms[i].position[1], ms[i].position[2], w>>]

\* the two weights given to the other marker set
SupplyPointsSwappedWeights(av, en) ==
  WeightedPoints(av, EngagedWeight) \o WeightedPoints(en, AvailableWeight)

\* [...available, ...engaged]
SupplyPoints(av, en) == WeightedPoints(av, AvailableWeight) \o WeightedPoints(en, EngagedWeight)

\* ride origins added to the supply cloud
HeatPointsRidesInSupply(av, en, mode, rides) ==
  IF mode = "demand" THEN DemandPoints(rides) ELSE SupplyPoints(av, en) \o DemandPoints(rides)

\* driver markers added to the demand cloud
HeatPointsDriversInDemand(av, en, mode, rides) ==
  IF mode = "demand" THEN DemandPoints(rides) \o SupplyPoints(av, en) ELSE SupplyPoints(av, en)

HeatPoints(av, en, mode, rides) ==
  IF mode = "demand" THEN DemandPoints(rides) ELSE SupplyPoints(av, en)

\* the dependency lists of the three memos
MarkerDeps(ds, locs) == <<ds, locs>>

\* heatMode missing from the dependency list of heatPoints
HeatDepsWithoutMode(av, en, mode, rides) == <<av, en, rides>>

HeatDeps(av, en, mode, rides) == <<av, en, mode, rides>>

\* ------------------------------------------------------------- HeatLayer
\* radii in tenths of a pixel; zoomFactor 0.2 is 2 tenths
BaseRadius == 26
ZoomFactorTenths == 2
ReferenceZoom == 12
RadiusFloor == 100
RadiusCeiling == 500

MathMax(a, b) == IF a >= b THEN a ELSE b
MathMin(a, b) == IF a <= b THEN a ELSE b

\* baseRadius * (1 + (12 - zoom) * zoomFactor)
AdjustedRadius(z) == BaseRadius * (10 + (ReferenceZoom - z) * ZoomFactorTenths)

\* the radius option given to L.heatLayer
CreationRadius(z) == MathMax(RadiusFloor, MathMin(RadiusCeiling, AdjustedRadius(z)))

\* onZoom setting the adjusted radius without clamping it
ZoomRadiusUnclamped(z) == AdjustedRadius(z)

\* the radius onZoom passes to setOptions
ZoomRadius(z) == MathMax(RadiusFloor, MathMin(RadiusCeiling, AdjustedRadius(z)))

\* the effect cleanup leaving the layer and the listener of its run in place
HeatCleanupKeepingLayer(n, ran) == n

\* The cleanup of a HeatLayer effect run: map.off / map.removeLayer of what
\* that run added; a run that returned early left no cleanup.
HeatCleanup(n, ran) == IF ran THEN n - 1 ELSE n

\* The HeatLayer effect body: return on an empty point list, else heat.addTo(map)
\* and map.on('zoomend', onZoom).
HeatEffect(n, points) == IF points = << >> THEN n ELSE n + 1

\* The render that follows a state or query change of the mounted map: each
\* memo is recomputed when one of its dependencies changed, and the HeatLayer
\* effect runs again when heatPoints was recomputed: the cleanup takes the
\* layer and the listener of the previous run away, and a non-empty point
\* list puts a new layer and a new listener on the map.
Render ==
  IF ~mapMounted'
  THEN /\ memoAvailable' = << >>
       /\ memoEngaged' = << >>
       /\ heatPoints' = << >>
       /\ heatLayers' = HeatCleanup(heatLayers, mapMounted /\ heatPoints # << >>)
       /\ zoomListeners' = HeatCleanup(zoomListeners, mapMounted /\ heatPoints # << >>)
       /\ layerRadius' = 0
  ELSE LET first == ~mapMounted
           markersStale ==
             first \/ MarkerDeps(drivers, locationsByDriverId) # MarkerDeps(drivers', locationsByDriverId')
       IN /\ memoAvailable' = IF markersStale THEN AvailableMarkers(drivers', locationsByDriverId')
                                               ELSE memoAvailable
          /\ memoEngaged' = IF markersStale THEN EngagedMarkers(drivers', locationsByDriverId')
                                             ELSE memoEngaged
          /\ LET heatStale ==
                    \/ markersStale
                    \/ HeatDeps(memoAvailable, memoEngaged, heatMode, liveRides)
                         # HeatDeps(memoAvailable', memoEngaged', heatMode', liveRides')
                 ran == ~first /\ heatPoints # << >>
             IN /\ heatPoints' = IF heatStale
                                  THEN HeatPoints(memoAvailable', memoEngaged', heatMode', liveRides')
                                  ELSE heatPoints
                /\ IF heatStale
                   THEN /\ heatLayers' = HeatEffect(HeatCleanup(heatLayers, ran), heatPoints')
                        /\ zoomListeners' = HeatEffect(HeatCleanup(zoomListeners, ran), heatPoints')
                        /\ layerRadius' = IF heatPoints' = << >> THEN 0 ELSE CreationRadius(zoom')
                   ELSE UNCHANGED <<heatLayers, zoomListeners, layerRadius>>

\* ------------------------------------------------------ push endpoint URL
EndsWithSlash(t) == Len(t) > 0 /\ t[Len(t)] = "/"
DropLast(t) == SubSeq(t, 1, Len(t) - 1)
stripTrailingSlash(t) == IF EndsWithSlash(t) THEN DropLast(t) ELSE t

\* a value that is neither undefined nor the empty string
Truthy(v) == v.set /\ v.text # << >>

\* /^https?:\/\//i
IsAbsoluteHttp(t) == Len(t) > 0 /\ t[1] \in {"http://", "https://", "HTTP://", "HTTPS://"}

\* /\/api$/i
EndsWithApi(t) == Len(t) > 0 /\ t[Len(t)] \in {"/api", "/API"}

HubFallback == <<"https://", "ecoride-4560.onrender.com", "/hubs">>

\* the URL derived from the REST base taking priority over the explicit override
resolveHubBaseUrlApiFirst(e) ==
  LET explicit == IF Truthy(e.VITE_HUB_API_URL) THEN e.VITE_HUB_API_URL ELSE e.VITE_HUB_URL
      api == e.VITE_API_URL
  IN IF Truthy(api) /\ IsAbsoluteHttp(api.text)
     THEN LET stripped == stripTrailingSlash(api.text)
              origin == IF EndsWithApi(stripped) THEN DropLast(stripped) ELSE stripped
          IN Append(origin, "/hubs")
     ELSE IF Truthy(explicit) THEN stripTrailingSlash(explicit.text) ELSE HubFallback

resolveHubBaseUrl(e) ==
  LET explicit == IF Truthy(e.VITE_HUB_API_URL) THEN e.VITE_HUB_API_URL ELSE e.VITE_HUB_URL
      api == e.VITE_API_URL
  IN IF Truthy(explicit)
     THEN stripTrailingSlash(explicit.text)
     ELSE IF Truthy(api) /\ IsAbsoluteHttp(api.text)
          THEN LET stripped == stripTrailingSlash(api.text)
                   origin == IF EndsWithApi(stripped) THEN DropLast(stripped) ELSE stripped
               IN Append(origin, "/hubs")
          ELSE HubFallback

\* ---------------------------------------------------------- Location Cache
\* data.f of a pushed payload; a field the payload lacks reads as undefined
Field(data, f) == IF f \in DOMAIN data THEN data[f] ELSE "undefined"

\* an existing entry kept instead of overwritten
RecordLocationKeepFirst(prev, data, now) ==
  LET key == Field(data, "driverId")
  IN [i \in DOMAIN prev \cup {key} |->
        IF i \in DOMAIN prev
        THEN prev[i]
        ELSE [latitude |-> Field(data, "latitude"), longitude |-> Field(data, "longitude"),
              updatedAt |-> now]]

\* latitude and longitude stored in each other's place
RecordLocationSwapped(prev, data, now) ==
  LET key == Field(data, "driverId")
  IN [i \in DOMAIN prev \cup {key} |->
        IF i = key
        THEN [latitude |-> Field(data, "longitude"), longitude |-> Field(data, "latitude"),
              updatedAt |-> now]
        ELSE prev[i]]

RecordLocation(prev, data, now) ==
  LET key == Field(data, "driverId")
  IN [i \in DOMAIN prev \cup {key} |->
        IF i = key
        THEN [latitude |-> Field(data, "latitude"), longitude |-> Field(data, "longitude"),
              updatedAt |-> now]
        ELSE prev[i]]

LatestStamp(locs) ==
  IF DOMAIN locs = {} THEN 0
  ELSE CHOOSE t \in Times : /\ \E i \in DOMAIN locs : locs[i].updatedAt = t
                            /\ \A i \in DOMAIN locs : locs[i].updatedAt <= t

\* ------------------------------------------------ Cache-Invalidation Bridge
DriverKey(id) == <<"driver", id>>

\* the DriverStatusChanged handler without its adminStats invalidation
InvalidationsWithoutStats(e) ==
  CASE e.type = "DriverRegistered" -> {<<"pendingDrivers">>, <<"adminStats">>}
    [] e.type = "DriverApproved" ->
         {<<"pendingDrivers">>, <<"drivers">>, <<"adminStats">>, DriverKey(e.id)}
    [] e.type = "DriverRejected" ->
         {<<"pendingDrivers">>, <<"drivers">>, <<"adminStats">>, DriverKey(e.id)}
    [] e.type = "DriverStatusChanged" -> {<<"drivers">>, DriverKey(e.id)}
    [] e.type = "DriverLocationUpdated" -> {}

Invalidations(e) ==
  CASE e.type = "DriverRegistered" -> {<<"pendingDrivers">>, <<"adminStats">>}
    [] e.type = "DriverApproved" ->
         {<<"pendingDrivers">>, <<"drivers">>, <<"adminStats">>, DriverKey(e.id)}
    [] e.type = "DriverRejected" ->
         {<<"pendingDrivers">>, <<"drivers">>, <<"adminStats">>, DriverKey(e.id)}
    [] e.type = "DriverStatusChanged" -> {<<"drivers">>, <<"adminStats">>, DriverKey(e.id)}
    [] e.type = "DriverLocationUpdated" -> {}

ToastTitle(e) ==
  CASE e.type = "DriverRegistered" -> "New driver registration"
    [] e.type = "DriverApproved" -> "Driver approved"
    [] e.type = "DriverRejected" -> "Driver rejected"
    [] OTHER -> NoToast

ShowsToast(e) == ToastTitle(e) # NoToast

\* onLocation registered for every event name
MapHandlesEveryEvent(e) == TRUE

MapHandles(e) == e.type = "DriverLocationUpdated"

\* ------------------------------------------------ Connection-State Indicator
isConnected == connectionState = "Connected"

ConnectionLabel == IF isConnected THEN "Receiving live updates" ELSE "Waiting for live updates"

\* onreconnected leaving the state at Reconnecting
LifecycleValueStuckReconnecting(signal) ==
  CASE signal = "close" -> "Disconnected"
    [] signal = "reconnecting" -> "Reconnecting"
    [] signal = "reconnected" -> "Reconnecting"
    [] signal = "startResolved" -> "Connected"
    [] signal = "startRejected" -> "Disconnected"

\* the start() rejection handler reporting Connected
LifecycleValueRejectedConnected(signal) ==
  CASE signal = "close" -> "Disconnected"
    [] signal = "reconnecting" -> "Reconnecting"
    [] signal = "reconnected" -> "Connected"
    [] signal = "startResolved" -> "Connected"
    [] signal = "startRejected" -> "Connected"

LifecycleValue(signal) ==
  CASE signal = "close" -> "Disconnected"
    [] signal = "reconnecting" -> "Reconnecting"
    [] signal = "reconnected" -> "Connected"
    [] signal = "startResolved" -> "Connected"
    [] signal = "startRejected" -> "Disconnected"

StopHub(s) ==
  CASE s = "Connecting" -> "AbortingStart"
    [] s \in {"Connected", "Reconnecting"} -> "Disconnecting"
    [] OTHER -> s

Unbuilt == {c \in Conns : hub[c] = "Unbuilt"}
NextConn == CHOOSE c \in Unbuilt : \A d \in Unbuilt : c <= d

\* A lifecycle callback of connection c calls setConnectionState(v).  The
\* update is applied when the provider instance the callback closes over is
\* still mounted, and is dropped by React otherwise.
SetConnectionState(c, v) ==
  IF providerMounted /\ c \in live
  THEN connectionState' = v /\ UNCHANGED disposedWrite
  ELSE UNCHANGED connectionState /\ disposedWrite' = TRUE

\* ------------------------------------------------------------ toast timers
\* the showToast timeouts not yet fired or cancelled
PendingTimeouts == staleTimers + (IF toastTimer THEN 1 ELSE 0)

\* showToast leaving the previous timeout pending
ClearTimeoutSkipped(held, pending) == pending

\* if (toastTimeoutRef.current) window.clearTimeout(toastTimeoutRef.current):
\* the timeouts left pending
ClearTimeout(held, pending) == IF held THEN pending - 1 ELSE pending

\* ------------------------------------------------------------ driver rooms
RoomDepsNow == <<connection, isConnected, viewDriverId>>

\* HubConnection.invoke writes its message when the hub is Connected and
\* rejects otherwise; the hook's .catch logs the rejection.
InvokeSent(h, c) == h[c] = "Connected"

\* the effect cleanup: invoke('LeaveDriverRoom', driverId) on the connection of its run
CleanupCalls ==
  IF roomJoined.joined THEN [openCalls EXCEPT ![roomJoined.id] = @ - 1] ELSE openCalls

CleanupSent(h) ==
  IF roomJoined.joined /\ InvokeSent(h, roomJoined.conn)
  THEN [openJoins EXCEPT ![roomJoined.id] = @ - 1]
  ELSE openJoins

\* the effect body without its isConnected guard
RunRoomEffectUnguarded(calls, sent, c, connected, id) ==
  IF c = NoConn \/ id = NoId
  THEN roomJoined' = NoRoom /\ openCalls' = calls /\ openJoins' = sent
  ELSE /\ roomJoined' = [joined |-> TRUE, conn |-> c, id |-> id]
       /\ openCalls' = [calls EXCEPT ![id] = @ + 1]
       /\ openJoins' = IF InvokeSent(hub, c) THEN [sent EXCEPT ![id] = @ + 1] ELSE sent

\* the effect body: return early, or invoke('JoinDriverRoom', driverId) and
\* leave a cleanup behind
RunRoomEffect(calls, sent, c, connected, id) ==
  IF c = NoConn \/ ~connected \/ id = NoId
  THEN roomJoined' = NoRoom /\ openCalls' = calls /\ openJoins' = sent
  ELSE /\ roomJoined' = [joined |-> TRUE, conn |-> c, id |-> id]
       /\ openCalls' = [calls EXCEPT ![id] = @ + 1]
       /\ openJoins' = IF InvokeSent(hub, c) THEN [sent EXCEPT ![id] = @ + 1] ELSE sent

\* ------------------------------------------------------------------- auth
Roles == {"admin", "driver"}
Users == [role : Roles]
NoUser == [null |-> TRUE]
Tokens == {"jwt1", "jwt2"}
NoToken == "null"
NoItem == << >>
AuthResponses == [accessToken : Tokens, user : Users]
ProtectedPaths == {"/", "/account"}
Paths == ProtectedPaths \cup {"/login"}
ResponseStatuses == {200, 401, 403, 500}

\* JSON.stringify(user) and JSON.parse(savedUser)
JSONstringify(u) == <<"{role:", u.role, "}">>
JSONparse(t) == [role |-> t[2]]

\* user?.role
RoleOf(u) == IF u = NoUser THEN "undefined" ELSE u.role

\* isAuthenticated: !!token && user?.role === 'admin'
isAuthenticated(a) == a.token # NoToken /\ RoleOf(a.user) = "admin"

\* ProtectedRoute redirects a visitor who is not authenticated to /login;
\* LoginPage sends an authenticated visitor to /.
Routed(a) ==
  IF a.isLoading THEN a
  ELSE IF a.path \in ProtectedPaths /\ ~isAuthenticated(a) THEN [a EXCEPT !.path = "/login"]
  ELSE IF a.path = "/login" /\ isAuthenticated(a) THEN [a EXCEPT !.path = "/"]
  ELSE a

\* AuthProvider as constructed by a page load at path p: storage is kept,
\* pending promise continuations of the previous page are gone
Loaded(a, p) ==
  [a EXCEPT !.user = NoUser, !.token = NoToken, !.isLoading = TRUE, !.path = p, !.saving = FALSE]

\* the mount effect of AuthProvider: lines 22-43
Restored(a) ==
  LET savedToken == a.admin_token
      savedUser == a.admin_user
  IN IF savedToken # NoToken /\ savedUser # NoItem
     THEN IF JSONparse(savedUser).role = "admin"
          THEN [a EXCEPT !.token = savedToken, !.user = JSONparse(savedUser), !.isLoading = FALSE]
          ELSE [a EXCEPT !.admin_token = NoToken, !.admin_user = NoItem, !.isLoading = FALSE]
     ELSE [a EXCEPT !.isLoading = FALSE]

\* api.login: throws unless response.data.user.role is 'admin'
ApiLogin(response) == response.user.role = "admin"

\* -------------------------------------------------------- driver approval
NoCall == [step |-> "idle", sent |-> << >>, thrown |-> "none"]

\* approveDriver going on to the approval request whatever the capture answered
AfterCaptureNotAwaited(call, ok) ==
  [call EXCEPT !.step = "approval", !.sent = Append(@, "approval")]

\* approveDriver after await api.post(.../registration-fee/capture): a rejected
\* capture throws out of the function, a fulfilled one posts the approval
AfterCapture(call, ok) ==
  IF ok
  THEN [call EXCEPT !.step = "approval", !.sent = Append(@, "approval")]
  ELSE [call EXCEPT !.step = "error", !.thrown = "capture"]

\* approveDriver after await api.post(.../approval)
AfterApproval(call, ok) ==
  IF ok
  THEN [call EXCEPT !.step = "success"]
  ELSE [call EXCEPT !.step = "error", !.thrown = "approval"]

\* approveMutation.onSuccess
ApprovalInvalidations == {"pendingDrivers", "adminStats"}

\* ---------------------------------------------------------------- sidebar
\* raw === '1', with a missing key read as closed
ReadStored(raw) == raw = "1"

\* isMobileOpen ? '1' : '0'
Persisted(open) == IF open THEN "1" ELSE "0"

isOverlay(s) == ~s.isDesktop
isSidebarOpen(s) == IF s.isDesktop THEN TRUE ELSE s.isMobileOpen

\* The effects that follow a render: the [isDesktop] effect, run on mount and
\* when isDesktop changed, closes the mobile sidebar on a desktop viewport;
\* the [isMobileOpen] effect stores the flag.
Settled(s, desktopEffectRuns) ==
  LET open == IF desktopEffectRuns /\ s.isDesktop THEN FALSE ELSE s.isMobileOpen
  IN [s EXCEPT !.isMobileOpen = open, !.stored = Persisted(open)]

Started ==
  /\ strictMode \in BOOLEAN
  /\ approval = [calls |-> [i \in Ids |-> NoCall], error |-> "", invalidated |-> {}]
  /\ sidebar = [mounted |-> FALSE, matches |-> TRUE, isDesktop |-> TRUE, isMobileOpen |-> FALSE,
                stored |-> "null"]
  /\ auth = [user |-> NoUser, token |-> NoToken, isLoading |-> TRUE, admin_token |-> NoToken,
             admin_user |-> NoItem, path |-> "/", saving |-> FALSE, status |-> 0]
  /\ providerMounted = FALSE
  /\ connection = NoConn
  /\ connectionState = "Disconnected"
  /\ hub = [c \in Conns |-> "Unbuilt"]
  /\ live = {}
  /\ everConnected = {}
  /\ reconnects = 0
  /\ toast = NoToast
  /\ toastTimer = FALSE
  /\ staleTimers = 0
  /\ lastEvent = NoEvent
  /\ invalidated = {}
  /\ mapMounted = FALSE
  /\ mapConn = NoConn
  /\ locationsByDriverId = EmptyCache
  /\ lastDelivered = NoneDelivered
  /\ overwrote = FALSE
  /\ heatMode = "supply"
  /\ mapCity = "blantyre"
  /\ drivers = << >>
  /\ disposedWrite = FALSE
  /\ hubBaseUrl = Unresolved
  /\ viewMounted = FALSE
  /\ viewDriverId = NoId
  /\ roomDeps = NoDeps
  /\ roomJoined = NoRoom
  /\ openJoins = [i \in Ids |-> 0]
  /\ openCalls = [i \in Ids |-> 0]
  /\ liveRides = << >>
  /\ statsError = FALSE
  /\ zoom = InitialZoom
  /\ memoAvailable = << >>
  /\ memoEngaged = << >>
  /\ heatPoints = << >>
  /\ heatLayers = 0
  /\ zoomListeners = 0
  /\ layerRadius = 0
  /\ adminJoins = [c \in Conns |-> 0]

\* the build without any of the three URL variables
Init == Started /\ env = NoEnv

\* ------------------------------------------------------ provider lifecycle
\* ProtectedRoute renders SignalRProvider; its effect reads admin_token and,
\* when present, builds and starts a connection.  Under StrictMode the effect
\* runs, is cleaned up and runs again in the same commit.  When the dashboard
\* stats are already cached the map mounts in the same commit, its effect
\* seeing connection = null.
ProviderMountNoToken ==
  /\ ~providerMounted
  /\ providerMounted' = TRUE
  /\ \E withMap \in BOOLEAN : mapMounted' = withMap
  /\ UNCHANGED <<strictMode, pageVars, adminJoins, urlVars, roomVars, liveRides, statsError, zoom,
                 connVars, toastVars, bridgeVars, mapConn, locationsByDriverId, lastDelivered,
                 overwrote, heatMode, mapCity, drivers, disposedWrite>>
  /\ Render

ProviderMountWithToken ==
  /\ ~providerMounted
  /\ IF strictMode
     THEN /\ Cardinality(Unbuilt) >= 2
          /\ LET c1 == NextConn
                 c2 == CHOOSE c \in Unbuilt \ {c1} : \A d \in Unbuilt \ {c1} : c <= d
             IN /\ hub' = [hub EXCEPT ![c1] = StopHub("Connecting"), ![c2] = "Connecting"]
                /\ connection' = c2
                /\ live' = {c1, c2}
     ELSE /\ Unbuilt # {}
          /\ hub' = [hub EXCEPT ![NextConn] = "Connecting"]
          /\ connection' = NextConn
          /\ live' = {NextConn}
  /\ hubBaseUrl' = resolveHubBaseUrl(env)
  /\ providerMounted' = TRUE
  /\ \E withMap \in BOOLEAN : mapMounted' = withMap
  /\ UNCHANGED <<strictMode, pageVars, adminJoins, env, roomVars, liveRides, statsError, zoom,
                 connectionState, everConnected, reconnects, toastVars, bridgeVars, mapConn,
                 locationsByDriverId, lastDelivered, overwrote, heatMode, mapCity, drivers,
                 disposedWrite>>
  /\ Render

\* Cleanup of the provider effect, then the instance and its subtree are gone.
ProviderUnmount ==
  /\ providerMounted
  /\ providerMounted' = FALSE
  /\ toastTimer' = FALSE
  /\ staleTimers' = ClearTimeout(toastTimer, PendingTimeouts)
  /\ hub' = IF connection = NoConn THEN hub
            ELSE [hub EXCEPT ![connection] = StopHub(hub[connection])]
  /\ connection' = NoConn
  /\ connectionState' = "Disconnected"
  /\ live' = {}
  /\ toast' = NoToast
  /\ mapMounted' = FALSE
  /\ mapConn' = NoConn
  /\ locationsByDriverId' = EmptyCache
  /\ lastDelivered' = NoneDelivered
  /\ overwrote' = FALSE
  /\ heatMode' = "supply"
  /\ mapCity' = "blantyre"
  /\ hubBaseUrl' = Unresolved
  /\ statsError' = FALSE
  /\ zoom' = InitialZoom
  /\ viewMounted' = FALSE
  /\ viewDriverId' = NoId
  /\ roomDeps' = NoDeps
  /\ roomJoined' = NoRoom
  /\ openCalls' = CleanupCalls
  /\ \E viewFirst \in {b \in BOOLEAN : roomJoined.joined \/ b} :
       openJoins' = CleanupSent(IF viewFirst THEN hub ELSE hub')
  /\ UNCHANGED <<strictMode, pageVars, adminJoins, env, liveRides, everConnected, reconnects,
                 bridgeVars, drivers, disposedWrite>>
  /\ Render

\* ------------------------------------------------ hub lifecycle signals
\* start() resolved: lines 159-164; the callback invokes JoinAdminRoom on the
\* connection it has just seen connect
StartResolved(c) ==
  /\ hub[c] = "Connecting"
  /\ hub' = [hub EXCEPT ![c] = "Connected"]
  /\ everConnected' = everConnected \cup {c}
  /\ SetConnectionState(c, LifecycleValue("startResolved"))
  /\ adminJoins' = IF InvokeSent(hub', c) THEN [adminJoins EXCEPT ![c] = @ + 1] ELSE adminJoins
  /\ UNCHANGED <<strictMode, pageVars, urlVars, roomVars, dashVars, providerMounted, connection,
                 live, reconnects, toastVars, bridgeVars, mapVars, mapCity, drivers>>

\* start() rejected, also when stop() was called while it was in flight: lines 165-168
StartRejected(c) ==
  /\ hub[c] \in {"Connecting", "AbortingStart"}
  /\ hub' = [hub EXCEPT ![c] = "Disconnected"]
  /\ SetConnectionState(c, LifecycleValue("startRejected"))
  /\ UNCHANGED <<strictMode, pageVars, adminJoins, urlVars, roomVars, dashVars, providerMounted,
                 connection, live, everConnected, reconnects, toastVars, bridgeVars, mapVars,
                 mapCity, drivers>>

\* the transport dropped and automatic reconnect began: onreconnecting
ConnectionLost(c) ==
  /\ hub[c] = "Connected"
  /\ reconnects < MaxReconnects
  /\ reconnects' = reconnects + 1
  /\ hub' = [hub EXCEPT ![c] = "Reconnecting"]
  /\ SetConnectionState(c, LifecycleValue("reconnecting"))
  /\ UNCHANGED <<strictMode, pageVars, adminJoins, urlVars, roomVars, dashVars, providerMounted,
                 connection, live, everConnected, toastVars, bridgeVars, mapVars, mapCity, drivers>>

\* a reconnect attempt succeeded: onreconnected
Reconnected(c) ==
  /\ hub[c] = "Reconnecting"
  /\ hub' = [hub EXCEPT ![c] = "Connected"]
  /\ SetConnectionState(c, LifecycleValue("reconnected"))
  /\ UNCHANGED <<strictMode, pageVars, adminJoins, urlVars, roomVars, dashVars, providerMounted,
                 connection, live, everConnected, reconnects, toastVars, bridgeVars, mapVars,
                 mapCity, drivers>>

\* the connection closed (server close, retries exhausted, or stop() completed): onclose
HubClosed(c) ==
  /\ hub[c] \in {"Connected", "Reconnecting", "Disconnecting"}
  /\ hub' = [hub EXCEPT ![c] = "Disconnected"]
  /\ SetConnectionState(c, LifecycleValue("close"))
  /\ UNCHANGED <<strictMode, pageVars, adminJoins, urlVars, roomVars, dashVars, providerMounted,
                 connection, live, everConnected, reconnects, toastVars, bridgeVars, mapVars,
                 mapCity, drivers>>

\* ------------------------------------------------------------ push events
\* The hub dispatches event e to every handler registered for its name on
\* connection c: the provider's bridge handler, and the map's onLocation.
MapHandlerRuns(c, e) == mapConn = c /\ MapHandles(e)

Deliver(c, e) ==
  /\ hub[c] = "Connected"
  /\ lastEvent' = e
  /\ invalidated' = Invalidations(e)
  /\ IF ShowsToast(e)
     THEN /\ staleTimers' = ClearTimeout(toastTimer, PendingTimeouts)
          /\ toastTimer' = TRUE
          /\ toast' = IF providerMounted /\ c \in live THEN ToastTitle(e) ELSE toast
     ELSE UNCHANGED toastVars
  /\ IF MapHandlerRuns(c, e) /\ mapMounted
     THEN \E now \in Times :
            /\ now >= LatestStamp(locationsByDriverId)
            /\ locationsByDriverId' = RecordLocation(locationsByDriverId, e, now)
     ELSE UNCHANGED locationsByDriverId
  /\ IF mapMounted /\ mapConn = c /\ e.type = LocationEventType
     THEN /\ lastDelivered' = [lastDelivered EXCEPT ![e.driverId] = <<e.latitude, e.longitude>>]
          /\ overwrote' = (overwrote \/ lastDelivered[e.driverId] \notin
                                          {<< >>, <<e.latitude, e.longitude>>})
     ELSE UNCHANGED <<lastDelivered, overwrote>>
  /\ disposedWrite' =
       (disposedWrite \/ (MapHandlerRuns(c, e) /\ ~mapMounted)
                      \/ (ShowsToast(e) /\ ~(providerMounted /\ c \in live)))
  /\ UNCHANGED <<strictMode, pageVars, adminJoins, urlVars, roomVars, liveRides, statsError, zoom,
                 providerMounted, connVars, mapMounted, mapConn, heatMode, mapCity, drivers>>
  /\ Render

\* the second updater applied to the cache of the last render
DeliverBurstStalePrev(c, e1, e2) ==
  /\ hub[c] = "Connected"
  /\ mapMounted
  /\ mapConn = c
  /\ e1.driverId # e2.driverId
  /\ lastEvent' = e2
  /\ invalidated' = Invalidations(e2)
  /\ \E now \in Times :
       /\ now >= LatestStamp(locationsByDriverId)
       /\ locationsByDriverId' = RecordLocation(locationsByDriverId, e2, now)
  /\ lastDelivered' = [lastDelivered EXCEPT ![e1.driverId] = <<e1.latitude, e1.longitude>>,
                                            ![e2.driverId] = <<e2.latitude, e2.longitude>>]
  /\ overwrote' = (\/ overwrote
                   \/ \E e \in {e1, e2} :
                        lastDelivered[e.driverId] \notin {<< >>, <<e.latitude, e.longitude>>})
  /\ UNCHANGED <<strictMode, pageVars, adminJoins, urlVars, roomVars, liveRides, statsError, zoom,
                 providerMounted, connVars, toastVars, mapMounted, mapConn, heatMode, mapCity,
                 drivers, disposedWrite>>
  /\ Render

\* Two location events for different drivers dispatched back to back, before
\* React renders: each setLocationsByDriverId updater receives the state the
\* updater before it returned.
DeliverBurst(c, e1, e2) ==
  /\ hub[c] = "Connected"
  /\ mapMounted
  /\ mapConn = c
  /\ e1.driverId # e2.driverId
  /\ lastEvent' = e2
  /\ invalidated' = Invalidations(e2)
  /\ \E now \in Times :
       /\ now >= LatestStamp(locationsByDriverId)
       /\ locationsByDriverId' =
            RecordLocation(RecordLocation(locationsByDriverId, e1, now), e2, now)
  /\ lastDelivered' = [lastDelivered EXCEPT ![e1.driverId] = <<e1.latitude, e1.longitude>>,
                                            ![e2.driverId] = <<e2.latitude, e2.longitude>>]
  /\ overwrote' = (\/ overwrote
                   \/ \E e \in {e1, e2} :
                        lastDelivered[e.driverId] \notin {<< >>, <<e.latitude, e.longitude>>})
  /\ UNCHANGED <<strictMode, pageVars, adminJoins, urlVars, roomVars, liveRides, statsError, zoom,
                 providerMounted, connVars, toastVars, mapMounted, mapConn, heatMode, mapCity,
                 drivers, disposedWrite>>
  /\ Render

\* ------------------------------------------------------------------ toast
\* One pending timeout expires: its callback clears the toast and the ref,
\* whichever timeout the ref holds.
ToastTimerFires ==
  /\ \E held \in {h \in BOOLEAN : IF h THEN toastTimer ELSE staleTimers > 0} :
       staleTimers' = IF held THEN staleTimers ELSE PendingTimeouts - 1
  /\ toastTimer' = FALSE
  /\ IF providerMounted
     THEN toast' = NoToast /\ UNCHANGED disposedWrite
     ELSE UNCHANGED toast /\ disposedWrite' = TRUE
  /\ UNCHANGED <<strictMode, pageVars, adminJoins, urlVars, roomVars, dashVars, providerMounted,
                 connVars, bridgeVars, mapVars, mapCity, drivers>>

\* the dismiss button also resetting the connection state
DismissToastResettingState ==
  /\ providerMounted
  /\ toast # NoToast
  /\ toast' = NoToast
  /\ connectionState' = "Disconnected"
  /\ UNCHANGED <<strictMode, pageVars, adminJoins, urlVars, roomVars, dashVars, providerMounted,
                 connection, hub, live, everConnected, reconnects, toastTimer, staleTimers,
                 bridgeVars, mapVars, mapCity, drivers, disposedWrite>>

DismissToast ==
  /\ providerMounted
  /\ toast # NoToast
  /\ toast' = NoToast
  /\ UNCHANGED <<strictMode, pageVars, adminJoins, urlVars, roomVars, dashVars, providerMounted,
                 connVars, toastTimer, staleTimers, bridgeVars, mapVars, mapCity, drivers,
                 disposedWrite>>

\* --------------------------------------------------------------- live map
\* DashboardPage renders AdminLiveMap; its subscription effect runs with the
\* provider's current connection.
MapMount ==
  /\ providerMounted
  /\ ~mapMounted
  /\ ~statsError
  /\ mapMounted' = TRUE
  /\ mapConn' = connection
  /\ UNCHANGED <<strictMode, pageVars, adminJoins, urlVars, roomVars, liveRides, statsError, zoom,
                 providerMounted, connVars, toastVars, bridgeVars, locationsByDriverId,
                 lastDelivered, overwrote, heatMode, mapCity, drivers, disposedWrite>>
  /\ Render

\* the effect's dependency `connection` changed: cleanup, then subscribe again
MapEffect ==
  /\ mapMounted
  /\ mapConn # connection
  /\ mapConn' = connection
  /\ UNCHANGED <<strictMode, pageVars, adminJoins, urlVars, roomVars, dashVars, providerMounted,
                 connVars, toastVars, bridgeVars, mapMounted, locationsByDriverId, lastDelivered,
                 overwrote, heatMode, mapCity, drivers, disposedWrite>>

\* the Location Cache outliving the map instance
MapUnmountKeepingCache ==
  /\ mapMounted
  /\ mapMounted' = FALSE
  /\ mapConn' = NoConn
  /\ lastDelivered' = NoneDelivered
  /\ overwrote' = FALSE
  /\ heatMode' = "supply"
  /\ \E keepPage \in BOOLEAN : mapCity' = IF keepPage THEN mapCity ELSE "blantyre"
  /\ zoom' = InitialZoom
  /\ UNCHANGED <<strictMode, pageVars, adminJoins, urlVars, roomVars, liveRides, statsError,
                 providerMounted, connVars, toastVars, bridgeVars, drivers, disposedWrite,
                 locationsByDriverId>>
  /\ Render

\* the map leaves the tree (navigation, or the page's stats error return)
MapUnmount ==
  /\ mapMounted
  /\ mapMounted' = FALSE
  /\ mapConn' = NoConn
  /\ locationsByDriverId' = EmptyCache
  /\ lastDelivered' = NoneDelivered
  /\ overwrote' = FALSE
  /\ heatMode' = "supply"
  /\ \E keepPage \in BOOLEAN : mapCity' = IF keepPage THEN mapCity ELSE "blantyre"
  /\ zoom' = InitialZoom
  /\ UNCHANGED <<strictMode, pageVars, adminJoins, urlVars, roomVars, liveRides, statsError,
                 providerMounted, connVars, toastVars, bridgeVars, drivers, disposedWrite>>
  /\ Render

SetHeatMode(m) ==
  /\ mapMounted
  /\ heatMode' = m
  /\ UNCHANGED <<strictMode, pageVars, adminJoins, urlVars, roomVars, liveRides, statsError, zoom,
                 providerMounted, connVars, toastVars, bridgeVars, mapMounted, mapConn,
                 locationsByDriverId, lastDelivered, overwrote, mapCity, drivers, disposedWrite>>
  /\ Render

\* A city button: the new center makes SetView call map.setView(center, 12);
\* a zoom that changes fires zoomend.
SetMapCity(city) ==
  /\ mapMounted
  /\ mapCity' = city
  /\ zoom' = IF city # mapCity THEN InitialZoom ELSE zoom
  /\ layerRadius' = IF zoomListeners > 0 /\ zoom' # zoom THEN ZoomRadius(zoom') ELSE layerRadius
  /\ UNCHANGED <<strictMode, pageVars, adminJoins, urlVars, roomVars, liveRides, statsError,
                 memoAvailable, memoEngaged, heatPoints, heatLayers, zoomListeners, providerMounted,
                 connVars, toastVars, bridgeVars, mapVars, drivers, disposedWrite>>

\* the poll result also emptying the Location Cache
DriversPollClearingCache(snapshot) ==
  /\ mapMounted
  /\ drivers' = snapshot
  /\ locationsByDriverId' = EmptyCache
  /\ UNCHANGED <<strictMode, pageVars, adminJoins, urlVars, roomVars, liveRides, statsError, zoom,
                 providerMounted, connVars, toastVars, bridgeVars, mapMounted, mapConn,
                 lastDelivered, overwrote, heatMode, mapCity, disposedWrite>>
  /\ Render

\* a poll of the ['drivers', {page 1, pageSize 200, isActive}] query returned
DriversPoll(snapshot) ==
  /\ mapMounted
  /\ drivers' = snapshot
  /\ UNCHANGED <<strictMode, pageVars, adminJoins, urlVars, roomVars, liveRides, statsError, zoom,
                 providerMounted, connVars, toastVars, bridgeVars, mapVars, mapCity, disposedWrite>>
  /\ Render

\* the poll that replaces an empty driver list
DriversFirstPoll(snapshot) == drivers = << >> /\ DriversPoll(snapshot)

\* a poll of the ['adminLiveRides', {limit: 100}] query returned
LiveRidesPoll(rides) ==
  /\ mapMounted
  /\ liveRides' = rides
  /\ UNCHANGED <<strictMode, pageVars, adminJoins, urlVars, roomVars, statsError, zoom,
                 providerMounted, connVars, toastVars, bridgeVars, mapVars, mapCity, drivers,
                 disposedWrite>>
  /\ Render

\* the user zoomed the map: zoomend runs the onZoom of a registered listener
ZoomEnd(z) ==
  /\ mapMounted
  /\ z # zoom
  /\ zoom' = z
  /\ layerRadius' = IF zoomListeners > 0 THEN ZoomRadius(z) ELSE layerRadius
  /\ UNCHANGED <<strictMode, pageVars, adminJoins, urlVars, roomVars, liveRides, statsError,
                 memoAvailable, memoEngaged, heatPoints, heatLayers, zoomListeners, providerMounted,
                 connVars, toastVars, bridgeVars, mapVars, mapCity, drivers, disposedWrite>>

\* ------------------------------------------------------- dashboard page
\* A refetch of the ['adminStats'] query failed, its retry included: the
\* query's error is set and DashboardPage returns the error element in place
\* of the page, the Live Map panel with it.
StatsPollFails ==
  /\ mapMounted
  /\ ~statsError
  /\ statsError' = TRUE
  /\ mapMounted' = FALSE
  /\ mapConn' = NoConn
  /\ locationsByDriverId' = EmptyCache
  /\ lastDelivered' = NoneDelivered
  /\ overwrote' = FALSE
  /\ heatMode' = "supply"
  /\ zoom' = InitialZoom
  /\ UNCHANGED <<strictMode, pageVars, adminJoins, urlVars, roomVars, liveRides, providerMounted,
                 connVars, toastVars, bridgeVars, mapCity, drivers, disposedWrite>>
  /\ Render

\* The next refetch succeeded: the error is cleared and the page renders
\* again, mounting a new AdminLiveMap.
StatsPollSucceeds ==
  /\ providerMounted
  /\ statsError
  /\ statsError' = FALSE
  /\ mapMounted' = TRUE
  /\ mapConn' = connection
  /\ UNCHANGED <<strictMode, pageVars, adminJoins, urlVars, roomVars, liveRides, zoom,
                 providerMounted, connVars, toastVars, bridgeVars, locationsByDriverId,
                 lastDelivered, overwrote, heatMode, mapCity, drivers, disposedWrite>>
  /\ Render

\* ------------------------------------------------------- detail view
\* A view calling useDriverUpdates(id) mounts under the provider; its effect
\* runs in the commit (under StrictMode it runs, is cleaned up and runs again,
\* which leaves the same cleanup pending).
ViewMount(id) ==
  /\ providerMounted
  /\ ~viewMounted
  /\ viewMounted' = TRUE
  /\ viewDriverId' = id
  /\ roomDeps' = <<connection, isConnected, id>>
  /\ RunRoomEffect(openCalls, openJoins, connection, isConnected, id)
  /\ UNCHANGED <<strictMode, pageVars, adminJoins, urlVars, dashVars, providerMounted, connVars,
                 toastVars, bridgeVars, mapVars, mapCity, drivers, disposedWrite>>

\* the route parameter changed: the view renders with another id
ViewChangeId(id) ==
  /\ viewMounted
  /\ id # viewDriverId
  /\ viewDriverId' = id
  /\ UNCHANGED <<strictMode, pageVars, adminJoins, urlVars, dashVars, viewMounted, roomDeps,
                 roomJoined, openJoins, openCalls, providerMounted, connVars, toastVars, bridgeVars,
                 mapVars, mapCity, drivers, disposedWrite>>

\* a dependency of the hook's effect changed: cleanup of the last run, then the body
RoomEffect ==
  /\ viewMounted
  /\ roomDeps # RoomDepsNow
  /\ roomDeps' = RoomDepsNow
  /\ RunRoomEffect(CleanupCalls, CleanupSent(hub), connection, isConnected, viewDriverId)
  /\ UNCHANGED <<strictMode, pageVars, adminJoins, urlVars, dashVars, viewMounted, viewDriverId,
                 providerMounted, connVars, toastVars, bridgeVars, mapVars, mapCity, drivers,
                 disposedWrite>>

ViewUnmount ==
  /\ viewMounted
  /\ viewMounted' = FALSE
  /\ viewDriverId' = NoId
  /\ roomDeps' = NoDeps
  /\ roomJoined' = NoRoom
  /\ openCalls' = CleanupCalls
  /\ openJoins' = CleanupSent(hub)
  /\ UNCHANGED <<strictMode, pageVars, adminJoins, urlVars, dashVars, providerMounted, connVars,
                 toastVars, bridgeVars, mapVars, mapCity, drivers, disposedWrite>>

\* ----------------------------------------------------------- auth actions
\* the mount effect of AuthProvider, then the first routed render
AuthEffect ==
  /\ auth.isLoading
  /\ auth' = Routed(Restored(auth))
  /\ UNCHANGED <<signalVars, approval, sidebar>>

\* the browser loads the application at path p
PageLoad(p) ==
  /\ ~auth.isLoading
  /\ auth' = Loaded(auth, p)
  /\ UNCHANGED <<signalVars, approval, sidebar>>

\* a link or the address bar of the running application
Navigate(p) ==
  /\ ~auth.isLoading
  /\ auth' = Routed([auth EXCEPT !.path = p])
  /\ UNCHANGED <<signalVars, approval, sidebar>>

\* LoginPage submits and POST /auth/login answers with response
Login(response) ==
  /\ ~auth.isLoading
  /\ auth.path = "/login"
  /\ auth' = IF ApiLogin(response)
             THEN Routed([auth EXCEPT !.token = response.accessToken, !.user = response.user,
                                      !.admin_token = response.accessToken,
                                      !.admin_user = JSONstringify(response.user),
                                      !.path = "/", !.status = 200])
             ELSE [auth EXCEPT !.status = 200]
  /\ UNCHANGED <<signalVars, approval, sidebar>>

\* handleLogout of the account page
Logout ==
  /\ ~auth.isLoading
  /\ auth.path = "/account"
  /\ auth' = Routed([auth EXCEPT !.token = NoToken, !.user = NoUser, !.admin_token = NoToken,
                                  !.admin_user = NoItem, !.path = "/login"])
  /\ UNCHANGED <<signalVars, approval, sidebar>>

\* updateUser(updatedUser): lines 63-66
UpdateUser(a, updatedUser) ==
  [a EXCEPT !.user = updatedUser, !.admin_user = JSONstringify(updatedUser)]

\* the account page's effect: if (me) updateUser(me)
AdminMeLoaded(me) ==
  /\ ~auth.isLoading
  /\ auth.path = "/account"
  /\ auth' = Routed(UpdateUser(auth, me))
  /\ UNCHANGED <<signalVars, approval, sidebar>>

\* the account page's Save button: await updateAdminMe(...)
SaveProfile ==
  /\ ~auth.isLoading
  /\ auth.path = "/account"
  /\ ~auth.saving
  /\ auth' = [auth EXCEPT !.saving = TRUE]
  /\ UNCHANGED <<signalVars, approval, sidebar>>

\* updateAdminMe resolved: the click handler continues with updateUser(updated)
SaveResolved(updated) ==
  /\ auth.saving
  /\ auth' = Routed([UpdateUser(auth, updated) EXCEPT !.saving = FALSE, !.status = 200])
  /\ UNCHANGED <<signalVars, approval, sidebar>>

\* The response interceptor's error branch, lines 105-115, for the failed
\* response of the profile save or of any other request: on 401 both keys are
\* removed and window.location.href = '/login' loads the page anew.
ResponseError(status) ==
  /\ ~auth.isLoading
  /\ status # 200
  /\ \E ofSave \in {b \in BOOLEAN : b => auth.saving} :
       auth' = IF status = 401
               THEN Loaded([auth EXCEPT !.admin_token = NoToken, !.admin_user = NoItem,
                                        !.status = status], "/login")
               ELSE [auth EXCEPT !.status = status, !.saving = auth.saving /\ ~ofSave]
  /\ UNCHANGED <<signalVars, approval, sidebar>>

\* ------------------------------------------------------- approval actions
\* approveMutation.mutate(id): approveDriver posts the capture request
Approve(id) ==
  /\ approval.calls[id].step \notin {"capture", "approval"}
  /\ approval' = [approval EXCEPT !.calls[id] = [NoCall EXCEPT !.step = "capture",
                                                               !.sent = <<"capture">>]]
  /\ UNCHANGED <<signalVars, auth, sidebar>>

\* the capture request is answered; a throw reaches approveMutation.onError
CaptureResponds(id, ok) ==
  /\ approval.calls[id].step = "capture"
  /\ approval' = [approval EXCEPT !.calls[id] = AfterCapture(@, ok),
                                  !.error = IF AfterCapture(approval.calls[id], ok).step = "error"
                                            THEN "capture failed" ELSE @]
  /\ UNCHANGED <<signalVars, auth, sidebar>>

\* the approval request is answered: onSuccess invalidates and clears the
\* error, onError shows the message
ApprovalResponds(id, ok) ==
  /\ approval.calls[id].step = "approval"
  /\ approval' = [approval EXCEPT !.calls[id] = AfterApproval(@, ok),
                                  !.error = IF ok THEN "" ELSE "approval failed",
                                  !.invalidated = IF ok THEN @ \cup ApprovalInvalidations ELSE @]
  /\ UNCHANGED <<signalVars, auth, sidebar>>

\* the invalidated query groups have been fetched again
ApprovalRefetched ==
  /\ approval.invalidated # {}
  /\ approval' = [approval EXCEPT !.invalidated = {}]
  /\ UNCHANGED <<signalVars, auth, sidebar>>

\* -------------------------------------------------------- sidebar actions
\* a component using useSidebar mounts: the state initialisers, then the effects
SidebarMount ==
  /\ ~sidebar.mounted
  /\ sidebar' = Settled([sidebar EXCEPT !.mounted = TRUE, !.isDesktop = sidebar.matches,
                                         !.isMobileOpen = ReadStored(sidebar.stored)], TRUE)
  /\ UNCHANGED <<signalVars, auth, approval>>

SidebarUnmount ==
  /\ sidebar.mounted
  /\ sidebar' = [sidebar EXCEPT !.mounted = FALSE, !.isDesktop = TRUE, !.isMobileOpen = FALSE]
  /\ UNCHANGED <<signalVars, auth, approval>>

\* the viewport crosses 1024px: the media query's change listener, when attached
MediaChange(matches) ==
  /\ matches # sidebar.matches
  /\ sidebar' = IF sidebar.mounted
                THEN Settled([sidebar EXCEPT !.matches = matches, !.isDesktop = matches],
                             matches # sidebar.isDesktop)
                ELSE [sidebar EXCEPT !.matches = matches]
  /\ UNCHANGED <<signalVars, auth, approval>>

openSidebar ==
  /\ sidebar.mounted
  /\ sidebar' = Settled([sidebar EXCEPT !.isMobileOpen = TRUE], FALSE)
  /\ UNCHANGED <<signalVars, auth, approval>>

closeSidebar ==
  /\ sidebar.mounted
  /\ sidebar' = Settled([sidebar EXCEPT !.isMobileOpen = FALSE], FALSE)
  /\ UNCHANGED <<signalVars, auth, approval>>

toggleSidebar ==
  /\ sidebar.mounted
  /\ sidebar' = Settled([sidebar EXCEPT !.isMobileOpen = ~@], FALSE)
  /\ UNCHANGED <<signalVars, auth, approval>>

\* ------------------------------------------------------- specifications
\* Inputs of the whole-system specification: one snapshot per shape and one
\* event per handler.
SnapshotSamples ==
  {<< >>,
   <<[id |-> "D1", status |-> "online"], [id |-> "D2", status |-> "on_trip"]>>,
   <<[id |-> "D2", status |-> "Online"]>>}

EventSamples ==
  {[type |-> "DriverRegistered", id |-> "D1"],
   [type |-> "DriverApproved", id |-> "D1"],
   [type |-> "DriverRejected", id |-> "D2"],
   [type |-> "DriverStatusChanged", id |-> "D2"],
   [type |-> LocationEventType, driverId |-> "D2", latitude |-> -15, longitude |-> 35]}

Lifecycle ==
  \/ \E c \in Conns : StartResolved(c)
  \/ \E c \in Conns : StartRejected(c)
  \/ \E c \in Conns : ConnectionLost(c)
  \/ \E c \in Conns : Reconnected(c)
  \/ \E c \in Conns : HubClosed(c)

\* The whole layer: provider, hub lifecycle, bridge, toast and live map.
Next ==
  \/ ProviderMountNoToken
  \/ ProviderMountWithToken
  \/ ProviderUnmount
  \/ Lifecycle
  \/ \E c \in Conns, e \in EventSamples : Deliver(c, e)
  \/ ToastTimerFires
  \/ DismissToast
  \/ MapMount
  \/ MapEffect
  \/ MapUnmount
  \/ \E m \in {"supply", "demand"} : SetHeatMode(m)
  \/ \E city \in {"blantyre", "lilongwe"} : SetMapCity(city)
  \/ \E snapshot \in SnapshotSamples : DriversPoll(snapshot)

Spec == Init /\ [][Next]_vars

\* The live map under every snapshot and every location event.  Every
\* snapshot arrives as the result that replaces an empty list, the sampled
\* ones also in place of any other, so that each snapshot meets each cache
\* content.
NextMap ==
  \/ ProviderMountWithToken
  \/ \E c \in Conns : StartResolved(c)
  \/ MapMount
  \/ MapEffect
  \/ MapUnmount
  \/ \E c \in Conns, e \in LocationEvents : Deliver(c, e)
  \/ \E snapshot \in Snapshots : DriversFirstPoll(snapshot)
  \/ \E snapshot \in SnapshotSamples : DriversPoll(snapshot)

InitMap == Init /\ ~strictMode

SpecMap == InitMap /\ [][NextMap]_vars

\* The bridge and the map's subscription under every push event.
NextBridge ==
  \/ ProviderMountWithToken
  \/ \E c \in Conns : StartResolved(c)
  \/ MapMount
  \/ MapEffect
  \/ MapUnmount
  \/ \E c \in Conns, e \in Events : Deliver(c, e)
  \/ \E c \in Conns, e1, e2 \in LocationEvents : DeliverBurst(c, e1, e2)
  \/ ToastTimerFires
  \/ DismissToast

SpecBridge == Init /\ [][NextBridge]_vars

\* The toast under every driver event, manual dismissal and timer expiry; a
\* timeout that stays pending expires.
NextToast ==
  \/ ProviderMountWithToken
  \/ ProviderUnmount
  \/ \E c \in Conns : StartResolved(c)
  \/ \E c \in Conns, e \in DriverEvents : Deliver(c, e)
  \/ ToastTimerFires
  \/ DismissToast

SpecToast == Init /\ [][NextToast]_vars /\ WF_vars(ToastTimerFires)

\* Authentication: page loads, login, logout, profile updates and error responses.
NextAuth ==
  \/ AuthEffect
  \/ \E p \in Paths : PageLoad(p)
  \/ \E p \in Paths : Navigate(p)
  \/ \E response \in AuthResponses : Login(response)
  \/ Logout
  \/ \E me \in Users : AdminMeLoaded(me)
  \/ SaveProfile
  \/ \E updated \in Users : SaveResolved(updated)
  \/ \E status \in ResponseStatuses : ResponseError(status)

SpecAuth == InitMap /\ [][NextAuth]_vars

\* The pending-approvals page inside a layout that uses useSidebar.
NextShell ==
  \/ \E id \in Ids : Approve(id)
  \/ \E id \in Ids, ok \in BOOLEAN : CaptureResponds(id, ok)
  \/ \E id \in Ids, ok \in BOOLEAN : ApprovalResponds(id, ok)
  \/ ApprovalRefetched
  \/ SidebarMount
  \/ SidebarUnmount
  \/ \E matches \in BOOLEAN : MediaChange(matches)
  \/ openSidebar
  \/ closeSidebar
  \/ toggleSidebar

SpecShell == InitMap /\ [][NextShell]_vars

\* Inputs of the dashboard specification.
LocationSamples ==
  {[type |-> LocationEventType, driverId |-> "D1", latitude |-> -13, longitude |-> 33],
   [type |-> LocationEventType, driverId |-> "D2", latitude |-> -15, longitude |-> 35]}

RideSamples ==
  {<< >>,
   <<[originLatitude |-> Num(-15), originLongitude |-> Num(35)],
     [originLatitude |-> NaN, originLongitude |-> Num(35)]>>}

\* The heat projector under every live-ride snapshot.
NextHeat ==
  \/ ProviderMountWithToken
  \/ \E c \in Conns : StartResolved(c)
  \/ MapMount
  \/ MapEffect
  \/ MapUnmount
  \/ \E c \in Conns, e \in LocationSamples : Deliver(c, e)
  \/ \E snapshot \in SnapshotSamples : DriversPoll(snapshot)
  \/ \E rides \in LiveRideSnapshots : LiveRidesPoll(rides)
  \/ \E m \in {"supply", "demand"} : SetHeatMode(m)

SpecHeat == InitMap /\ [][NextHeat]_vars

\* The dashboard's live map: polls, location events, toggles, zoom, the
\* connection's state changes and the stats query's failure.
NextDash ==
  \/ ProviderMountWithToken
  \/ \E c \in Conns : StartResolved(c)
  \/ \E c \in Conns : ConnectionLost(c)
  \/ \E c \in Conns : Reconnected(c)
  \/ \E c \in Conns : HubClosed(c)
  \/ MapMount
  \/ MapEffect
  \/ MapUnmount
  \/ \E c \in Conns, e \in LocationSamples : Deliver(c, e)
  \/ \E snapshot \in SnapshotSamples : DriversPoll(snapshot)
  \/ \E rides \in RideSamples : LiveRidesPoll(rides)
  \/ \E m \in {"supply", "demand"} : SetHeatMode(m)
  \/ \E city \in {"blantyre", "lilongwe"} : SetMapCity(city)
  \/ \E z \in Zooms : ZoomEnd(z)
  \/ StatsPollFails
  \/ StatsPollSucceeds

SpecDash == InitMap /\ [][NextDash]_vars

\* A detail view using useDriverUpdates under the provider.
NextRoom ==
  \/ ProviderMountWithToken
  \/ ProviderUnmount
  \/ Lifecycle
  \/ \E id \in Ids \cup {NoId} : ViewMount(id)
  \/ \E id \in Ids \cup {NoId} : ViewChangeId(id)
  \/ RoomEffect
  \/ ViewUnmount

SpecRoom == Init /\ [][NextRoom]_vars

\* The provider built under every configuration of the URL variables.
InitUrl == Started /\ env \in Envs

NextUrl ==
  \/ ProviderMountNoToken
  \/ ProviderMountWithToken
  \/ ProviderUnmount
  \/ \E c \in Conns : StartResolved(c)
  \/ \E c \in Conns : StartRejected(c)

SpecUrl == InitUrl /\ [][NextUrl]_vars

\* ================================================================= claims

QualifyingStatuses == {"online", "busy", "on_trip"}

InSnapshotQualifying(id) ==
  \E i \in DOMAIN drivers :
    drivers[i].id = id /\ ToLowerCase(drivers[i].status) \in QualifyingStatuses

ExampleSnapshot ==
  <<[id |-> "D1", status |-> "online"], [id |-> "D2", status |-> "on_trip"]>>

\* C1: a driver id has a marker (available or engaged) only if the latest
\* snapshot lists it with status online, busy or on_trip and the Location
\* Cache holds an entry for it; with snapshot {D1 online, D2 on_trip} and a
\* location only for D2, available is empty and engaged is exactly {D2}.
C1_MarkerNeedsSnapshotAndLocation ==
  /\ \A id \in MarkerIds(availableMarkers) \cup MarkerIds(engagedMarkers) :
       InSnapshotQualifying(id) /\ id \in DOMAIN locationsByDriverId
  /\ (drivers = ExampleSnapshot /\ DOMAIN locationsByDriverId = {"D2"}) =>
       (availableMarkers = << >> /\ MarkerIds(engagedMarkers) = {"D2"} /\ Len(engagedMarkers) = 1)

C1_Witness ==
  /\ mapMounted
  /\ drivers = ExampleSnapshot
  /\ DOMAIN locationsByDriverId = {"D2"}
  /\ lastEvent.type = LocationEventType

\* C2 as stated: for every snapshot list and cache content the available and
\* engaged marker sets share no driver id, also when an id occurs twice.
C2_DisjointForEverySnapshot ==
  MarkerIds(availableMarkers) \cap MarkerIds(engagedMarkers) = {}

ConflictingDuplicate(ds) ==
  \E i, j \in DOMAIN ds :
    /\ ds[i].id = ds[j].id
    /\ ToLowerCase(ds[i].status) = "online"
    /\ ToLowerCase(ds[j].status) \in {"busy", "on_trip"}

\* C2 amended: the two marker sets share no driver id whenever the snapshot
\* does not list the same id both with status online and with status busy or
\* on_trip (in particular whenever its ids are unique).
C2_DisjointWithoutConflictingDuplicate ==
  ~ConflictingDuplicate(drivers) =>
     MarkerIds(availableMarkers) \cap MarkerIds(engagedMarkers) = {}

C2_Witness ==
  /\ ~ConflictingDuplicate(drivers)
  /\ availableMarkers # << >>
  /\ engagedMarkers # << >>

\* C3: while the map is mounted, the cache entry of an id holds exactly the
\* latitude and longitude of the last location event handed to onLocation for
\* that id, and there is an entry exactly for the ids that received one.
C3_LastWriteWins ==
  mapMounted =>
    \A id \in Ids :
      /\ (lastDelivered[id] = << >>) <=> (id \notin DOMAIN locationsByDriverId)
      /\ lastDelivered[id] # << >> =>
           <<locationsByDriverId[id].latitude, locationsByDriverId[id].longitude>> =
             lastDelivered[id]

C3_Witness ==
  /\ mapMounted
  /\ overwrote
  /\ DOMAIN locationsByDriverId = {"D1"}
  /\ <<locationsByDriverId["D1"].latitude, locationsByDriverId["D1"].longitude>> =
       lastDelivered["D1"]

\* The routing table of the Cache-Invalidation Bridge as the specification
\* states it.
RoutingTable(type, id) ==
  CASE type = "DriverRegistered" -> {<<"pendingDrivers">>, <<"adminStats">>}
    [] type \in {"DriverApproved", "DriverRejected"} ->
         {<<"pendingDrivers">>, <<"drivers">>, <<"adminStats">>, <<"driver", id>>}
    [] type = "DriverStatusChanged" -> {<<"drivers">>, <<"adminStats">>, <<"driver", id>>}
    [] type = "DriverLocationUpdated" -> {}

\* C4: the query groups invalidated for a push event are exactly those of the
\* routing table for its type and id, none more and none fewer.
C4_InvalidationsMatchRoutingTable ==
  lastEvent # NoEvent =>
    invalidated = RoutingTable(lastEvent.type,
                               IF "id" \in DOMAIN lastEvent THEN lastEvent.id ELSE lastEvent.driverId)

C4_Witness ==
  /\ lastEvent = [type |-> "DriverStatusChanged", id |-> "D2"]
  /\ invalidated = {<<"drivers">>, <<"adminStats">>, <<"driver", "D2">>}

\* C5: a DriverRegistered, DriverApproved, DriverRejected or DriverStatusChanged
\* event leaves the Location Cache unchanged, and a DriverApproved event for
\* D1 marks exactly {pendingDrivers, drivers, adminStats, driver:D1} stale.
C5_DriverEventsLeaveCacheAlone ==
  [][\A c \in Conns, e \in DriverEvents :
       Deliver(c, e) =>
         /\ locationsByDriverId' = locationsByDriverId
         /\ (e = [type |-> "DriverApproved", id |-> "D1"]) =>
              invalidated' = {<<"pendingDrivers">>, <<"drivers">>, <<"adminStats">>,
                              <<"driver", "D1">>}]_vars

C5_Witness ==
  /\ lastEvent = [type |-> "DriverApproved", id |-> "D1"]
  /\ mapMounted
  /\ mapConn = connection
  /\ DOMAIN locationsByDriverId = Ids

\* C6: after a DriverLocationUpdated event for an id is dispatched to the
\* subscribed map, the cache entry of that id has exactly the event's latitude
\* and longitude, and the event marks no query group stale.
C6_LocationEventFillsCacheOnly ==
  [][\A c \in Conns, e \in LocationEvents :
       Deliver(c, e) =>
         /\ invalidated' = {}
         /\ (mapMounted /\ mapConn = c) =>
              /\ e.driverId \in DOMAIN locationsByDriverId'
              /\ locationsByDriverId'[e.driverId].latitude = e.latitude
              /\ locationsByDriverId'[e.driverId].longitude = e.longitude]_vars

C6_Witness ==
  /\ lastEvent = [type |-> LocationEventType, driverId |-> "D2", latitude |-> -15,
                  longitude |-> 35]
  /\ mapMounted
  /\ "D2" \in DOMAIN locationsByDriverId
  /\ locationsByDriverId["D2"].latitude = -15
  /\ locationsByDriverId["D2"].longitude = 35
  /\ invalidated = {}

ExposedValues == {"Disconnected", "Reconnecting", "Connected"}

C8_OnlyLifecycleSetsState ==
  [][(providerMounted /\ providerMounted' /\ connectionState' # connectionState)
       => Lifecycle]_vars

C8_Witness ==
  /\ connectionState = "Reconnecting"
  /\ toast # NoToast
  /\ mapMounted
  /\ heatMode = "demand"
  /\ mapCity = "lilongwe"
  /\ drivers # << >>
  /\ lastEvent # NoEvent

\* C9: as long as no connection of the mounted provider was ever established
\* (no token, or start() rejected), the exposed state is disconnected,
\* isConnected is false, the map shows 'Waiting for live updates' and both
\* marker sets are empty whatever the polls returned; and while no connection
\* was established at all the bridge has invalidated no query group.
C9_NeverEstablishedStaysDegraded ==
  /\ (providerMounted /\ live \cap everConnected = {}) =>
       /\ connectionState = "Disconnected"
       /\ ~isConnected
       /\ ConnectionLabel = "Waiting for live updates"
       /\ availableMarkers = << >>
       /\ engagedMarkers = << >>
  /\ everConnected = {} => (lastEvent = NoEvent /\ invalidated = {})

C9_Witness ==
  /\ providerMounted
  /\ connection # NoConn
  /\ hub[connection] = "Disconnected"
  /\ everConnected = {}
  /\ mapMounted
  /\ drivers = ExampleSnapshot

\* C10: once the map is unmounted its onLocation is registered nowhere and
\* nothing writes into its cache; once the provider is unmounted no toast
\* timer is pending, no connection is left running, and no timer or callback
\* runs against the unmounted instance.
C10_TeardownLeavesNothingBehind ==
  /\ ~mapMounted => (mapConn = NoConn /\ locationsByDriverId = EmptyCache)
  /\ ~providerMounted =>
       /\ ~toastTimer
       /\ \A c \in Conns : hub[c] \notin {"Connecting", "Connected", "Reconnecting"}
  /\ ~disposedWrite

\* C11: the marker sets and the heat points a mounted map shows are a function
\* of the current inputs only (driver snapshot, live-ride snapshot, Location
\* Cache, heat mode): whatever order of polls, push events and toggles led to
\* the inputs, the memoised values equal a fresh computation from them.
C11_DerivedFromCurrentInputs ==
  mapMounted =>
    /\ memoAvailable = availableMarkers
    /\ memoEngaged = engagedMarkers
    /\ heatPoints = HeatPoints(availableMarkers, engagedMarkers, heatMode, liveRides)

C11_Witness ==
  /\ mapMounted
  /\ heatMode = "demand"
  /\ heatPoints # << >>
  /\ memoAvailable # << >>
  /\ memoEngaged # << >>

\* C12: while a map instance stays mounted no Location Cache entry is removed
\* (the set of cached ids only grows), and a map that mounts starts with an
\* empty cache, nothing carried over from the instance before it.
C12_CacheGrowsWhileMountedAndStartsEmpty ==
  [][/\ (mapMounted /\ mapMounted') => DOMAIN locationsByDriverId \subseteq DOMAIN locationsByDriverId'
     /\ (~mapMounted /\ mapMounted') => locationsByDriverId' = EmptyCache]_vars

C12_Witness ==
  /\ mapMounted
  /\ DOMAIN locationsByDriverId = Ids
  /\ overwrote

\* C13: while the map is mounted only a DriverLocationUpdated event changes
\* the Location Cache: a step that changes the driver snapshot, the live-ride
\* snapshot, the heat mode, the city, the zoom or the connection state leaves
\* every entry as it was.
C13_OnlyLocationEventsWriteCache ==
  [][(mapMounted /\ mapMounted') =>
       /\ (locationsByDriverId' # locationsByDriverId) =>
            \E c \in Conns, e \in LocationEvents : Deliver(c, e)
       /\ (\/ drivers' # drivers
           \/ liveRides' # liveRides
           \/ heatMode' # heatMode
           \/ mapCity' # mapCity
           \/ zoom' # zoom
           \/ connectionState' # connectionState) => locationsByDriverId' = locationsByDriverId]_vars

C13_Witness ==
  /\ mapMounted
  /\ DOMAIN locationsByDriverId = Ids
  /\ drivers # << >>
  /\ liveRides # << >>
  /\ heatMode = "demand"
  /\ mapCity = "lilongwe"
  /\ zoom # InitialZoom
  /\ connectionState = "Reconnecting"

\* C14: in supply mode every heat point made from an available marker has
\* weight 0.4 (4 tenths) and every heat point made from an engaged marker has
\* weight 1.0 (10 tenths), so no engaged weight is below an available weight.
C14_SupplyWeights ==
  (mapMounted /\ heatMode = "supply") =>
    LET a == Len(memoAvailable)
    IN /\ Len(heatPoints) = a + Len(memoEngaged)
       /\ \A i \in 1..a : heatPoints[i][3] = 4
       /\ \A j \in DOMAIN memoEngaged : heatPoints[a + j][3] = 10
       /\ \A i \in 1..a, j \in DOMAIN memoEngaged : heatPoints[a + j][3] >= heatPoints[i][3]

C14_Witness ==
  /\ mapMounted
  /\ heatMode = "supply"
  /\ Len(memoAvailable) = 1
  /\ Len(memoEngaged) = 1
  /\ Len(heatPoints) = 2

IsNumber(x) == x.kind = "number"

\* C15: in supply mode the heat points are one point per available marker and
\* one point per engaged marker, each at the marker's cached position, and
\* nothing else: live rides add no point.
C15_SupplyCloudIsTheMarkers ==
  (mapMounted /\ heatMode = "supply") =>
    LET a == Len(memoAvailable)
        At(m) == <<locationsByDriverId[m.id].latitude, locationsByDriverId[m.id].longitude>>
    IN /\ Len(heatPoints) = a + Len(memoEngaged)
       /\ \A i \in 1..a : <<heatPoints[i][1], heatPoints[i][2]>> = At(memoAvailable[i])
       /\ \A j \in DOMAIN memoEngaged :
            <<heatPoints[a + j][1], heatPoints[a + j][2]>> = At(memoEngaged[j])

C15_Witness ==
  /\ mapMounted
  /\ heatMode = "supply"
  /\ memoAvailable # << >>
  /\ memoEngaged # << >>
  /\ \E i \in DOMAIN liveRides :
       IsNumber(liveRides[i].originLatitude) /\ IsNumber(liveRides[i].originLongitude)

RECURSIVE ValidOriginPoints(_)
ValidOriginPoints(rides) ==
  IF rides = << >> THEN << >>
  ELSE LET r == Head(rides)
           rest == ValidOriginPoints(Tail(rides))
       IN IF IsNumber(r.originLatitude) /\ IsNumber(r.originLongitude)
          THEN <<<<r.originLatitude.value, r.originLongitude.value, 10>>>> \o rest
          ELSE rest

\* C16: in demand mode the heat points are one point of weight 1.0 (10
\* tenths) per live ride whose origin latitude and longitude are both finite
\* numbers, in the rides' order; a ride with an invalid origin adds no point,
\* and neither the driver snapshot nor the Location Cache adds or moves one.
C16_DemandCloudIsTheValidRides ==
  (mapMounted /\ heatMode = "demand") => heatPoints = ValidOriginPoints(liveRides)

C16_Witness ==
  /\ mapMounted
  /\ heatMode = "demand"
  /\ memoEngaged # << >>
  /\ Len(liveRides) = 2
  /\ Len(heatPoints) = 1

\* 26 * (1 + (12 - zoom) * 0.2) in tenths of a pixel, clamped to [10, 50] pixels
ClampedRadius(z) ==
  LET r == 260 + 52 * (12 - z)
  IN IF r < 100 THEN 100 ELSE IF r > 500 THEN 500 ELSE r

\* C17: the heat radius clamp(10, 50, 26 * (1 + (12 - zoom) * 0.2)) never
\* increases from one zoom level to the next and lies in [10, 50] at every level,
\* and the radius of the layer on the map is that value at the map's current
\* zoom, when the layer was just created as well as after a zoom change.
C17_RadiusClampedAndMonotone ==
  /\ \A z \in Zooms \ {MaxZoom} :
       CreationRadius(z) >= CreationRadius(z + 1) /\ ZoomRadius(z) >= ZoomRadius(z + 1)
  /\ \A z \in Zooms : CreationRadius(z) \in 100..500 /\ ZoomRadius(z) \in 100..500
  /\ heatLayers > 0 => layerRadius \in 100..500 /\ layerRadius = ClampedRadius(zoom)

C17_Witness ==
  /\ heatLayers = 1
  /\ zoomListeners = 1
  /\ zoom > InitialZoom
  /\ layerRadius = 100

\* C18: a failed REST poll shows as an error in the panel of its query only:
\* the step in which the stats query enters its error state leaves the live
\* map mounted and every Location Cache entry as it was.
C18_FailedPollLeavesMapAlone ==
  [][(statsError' /\ ~statsError) =>
       /\ mapMounted' = mapMounted
       /\ locationsByDriverId' = locationsByDriverId]_vars

Pending(id) == IF roomJoined.joined /\ roomJoined.id = id THEN 1 ELSE 0

\* C19 as stated: every JoinDriverRoom(id) sent is followed by exactly one
\* LeaveDriverRoom(id) sent when the view unmounts or the id or the connection
\* state changes, and no LeaveDriverRoom(id) is sent without a JoinDriverRoom(id)
\* before it: per id, the messages sent balance but for the join of the
\* effect run whose cleanup is still to come.
C19_EveryJoinSentGetsItsLeaveSent ==
  \A id \in Ids : openJoins[id] = Pending(id)

\* C19 amended: the hook calls invoke('JoinDriverRoom', id) only on an
\* existing connection that is connected, so every such call is sent; every
\* join call is followed by exactly one invoke('LeaveDriverRoom', id) call when
\* the view unmounts or the id or the connection state changes, and no leave
\* call is made without a join call before it; a leave message is sent only
\* for a join message sent before, and only when the hub is still connected
\* at the cleanup.
C19_EveryJoinCallGetsItsLeaveCall ==
  /\ roomJoined.joined => roomJoined.conn # NoConn
  /\ \A id \in Ids :
       /\ openCalls[id] = Pending(id)
       /\ openJoins[id] >= openCalls[id]

C19_Witness ==
  /\ viewMounted
  /\ viewDriverId \in Ids
  /\ roomDeps = RoomDepsNow
  /\ connectionState = "Reconnecting"
  /\ ~roomJoined.joined
  /\ openJoins[viewDriverId] = 1
  /\ openCalls[viewDriverId] = 0

IsSet(v) == v.set /\ v.text # << >>
ExplicitOverride ==
  IF IsSet(env.VITE_HUB_API_URL) THEN env.VITE_HUB_API_URL ELSE env.VITE_HUB_URL

WithoutLast(t) == [i \in 1..(Len(t) - 1) |-> t[i]]
WithoutTrailingSlash(t) == IF t # << >> /\ t[Len(t)] = "/" THEN WithoutLast(t) ELSE t
WithoutTrailingApi(t) == IF t # << >> /\ t[Len(t)] \in {"/api", "/API"} THEN WithoutLast(t) ELSE t

\* VITE_API_URL with a trailing slash and a trailing /api removed, plus /hubs
DerivedFromRestBase == WithoutTrailingApi(WithoutTrailingSlash(env.VITE_API_URL.text)) \o <<"/hubs">>

StartsWithHttp(t) == t # << >> /\ t[1] \in {"http://", "https://", "HTTP://", "HTTPS://"}

\* C20 as stated: the base URL of a built connection is the explicit override
\* (VITE_HUB_API_URL, else VITE_HUB_URL) when one is set; otherwise, when
\* VITE_API_URL is set, the URL derived from it; otherwise the hardcoded
\* fallback, which is used only when no variable is set.
C20_StrictPriority ==
  hubBaseUrl # Unresolved =>
    IF IsSet(ExplicitOverride) THEN hubBaseUrl = WithoutTrailingSlash(ExplicitOverride.text)
    ELSE IF IsSet(env.VITE_API_URL) THEN hubBaseUrl = DerivedFromRestBase
    ELSE hubBaseUrl = HubFallback

\* C20 amended: the explicit override when one is set; otherwise, when
\* VITE_API_URL is set and is an absolute http(s) URL, the URL derived from
\* it; otherwise, VITE_API_URL being unset, empty or not an absolute http(s)
\* URL, the hardcoded fallback.
C20_PriorityWithAbsoluteRestBase ==
  hubBaseUrl # Unresolved =>
    IF IsSet(ExplicitOverride) THEN hubBaseUrl = WithoutTrailingSlash(ExplicitOverride.text)
    ELSE IF IsSet(env.VITE_API_URL) /\ StartsWithHttp(env.VITE_API_URL.text)
         THEN hubBaseUrl = DerivedFromRestBase
         ELSE hubBaseUrl = HubFallback

C20_Witness ==
  /\ providerMounted
  /\ connection # NoConn
  /\ ~IsSet(ExplicitOverride)
  /\ env.VITE_API_URL = Str(<<"/api">>)
  /\ hubBaseUrl = HubFallback

OnlineSpellings == {"online", "Online"}
EngagedSpellings == {"busy", "on_trip", "ON_TRIP"}
Cached(d) == d.id \in DOMAIN locationsByDriverId
CachedPosition(id) == <<locationsByDriverId[id].latitude, locationsByDriverId[id].longitude>>
HasMarker(ms, id) == \E k \in DOMAIN ms : ms[k].id = id /\ ms[k].position = CachedPosition(id)
EntriesWith(spellings) ==
  Cardinality({i \in DOMAIN drivers : drivers[i].status \in spellings /\ Cached(drivers[i])})

\* C22: every entry of the latest snapshot with status online (resp. busy or
\* on_trip, in any letter case) whose id has a Location Cache entry has a
\* marker in the available (resp. engaged) set at exactly the cached latitude
\* and longitude, and the sets hold one marker per such entry and no other:
\* an offline entry yields no marker.
C22_EveryQualifyingDriverHasItsMarker ==
  mapMounted =>
    /\ \A i \in DOMAIN drivers :
         /\ (drivers[i].status \in OnlineSpellings /\ Cached(drivers[i]))
              => HasMarker(memoAvailable, drivers[i].id)
         /\ (drivers[i].status \in EngagedSpellings /\ Cached(drivers[i]))
              => HasMarker(memoEngaged, drivers[i].id)
    /\ Len(memoAvailable) = EntriesWith(OnlineSpellings)
    /\ Len(memoEngaged) = EntriesWith(EngagedSpellings)

C22_Witness ==
  /\ mapMounted
  /\ \E i \in DOMAIN drivers : drivers[i].status = "Online" /\ Cached(drivers[i])
  /\ Len(memoAvailable) = 1
  /\ memoEngaged = << >>

SameEntry(y) == y \in DOMAIN locationsByDriverId' /\ locationsByDriverId'[y] = locationsByDriverId[y]
Holds(locs, e) ==
  /\ e.driverId \in DOMAIN locs
  /\ locs[e.driverId].latitude = e.latitude
  /\ locs[e.driverId].longitude = e.longitude

\* C25: recording a location for id X changes only the entry of X: every
\* other cached id keeps its latitude, longitude and updatedAt and no other id
\* is added; when two events for different ids are dispatched back to back
\* before a render, both entries are recorded, the second record leaving the
\* first as recorded, and every other entry is kept.
C25_RecordTouchesOnlyItsEntry ==
  [][/\ \A c \in Conns, e \in LocationEvents :
          Deliver(c, e) =>
            /\ \A y \in DOMAIN locationsByDriverId \ {e.driverId} : SameEntry(y)
            /\ DOMAIN locationsByDriverId' \subseteq DOMAIN locationsByDriverId \cup {e.driverId}
     /\ \A c \in Conns, e1, e2 \in LocationEvents :
          DeliverBurst(c, e1, e2) =>
            /\ \A y \in DOMAIN locationsByDriverId \ {e1.driverId, e2.driverId} : SameEntry(y)
            /\ DOMAIN locationsByDriverId' =
                 DOMAIN locationsByDriverId \cup {e1.driverId, e2.driverId}
            /\ Holds(locationsByDriverId', e1)
            /\ Holds(locationsByDriverId', e2)]_vars

C25_Witness ==
  /\ mapMounted
  /\ DOMAIN locationsByDriverId = Ids
  /\ \E i, j \in Ids : locationsByDriverId[i].updatedAt < locationsByDriverId[j].updatedAt
  /\ lastEvent.type = LocationEventType

Established(c) == hub[c] # "Connected" /\ hub'[c] = "Connected"

\* C23: every step in which a connection becomes connected, by start() or by
\* an automatic reconnect, writes one JoinAdminRoom message to that
\* connection, and a connection that never connected has received none.
C23_EveryConnectJoinsAdminRoom ==
  [][\A c \in Conns :
       /\ Established(c) => adminJoins'[c] = adminJoins[c] + 1
       /\ adminJoins'[c] > 0 => c \in everConnected']_vars

Callback(c) ==
  StartResolved(c) \/ StartRejected(c) \/ ConnectionLost(c) \/ Reconnected(c) \/ HubClosed(c)

\* C24: every lifecycle callback that runs finds the provider mounted, and a
\* callback that changes the exposed connection state belongs to the most
\* recently created connection, the one held in `connection`.
C24_OnlyCurrentConnectionWritesState ==
  [][\A c \in Conns :
       Callback(c) =>
         /\ providerMounted
         /\ connectionState' # connectionState => c = connection]_vars

\* C26: at most one showToast timeout is pending and it is the one the latest
\* showToast created (none is left behind by a replaced toast), a displayed
\* toast has that timeout pending, and every displayed toast is eventually
\* gone.
C26_OneTimerAndEveryToastCleared ==
  /\ [](PendingTimeouts <= 1 /\ staleTimers = 0 /\ (toast # NoToast => toastTimer))
  /\ (toast # NoToast) ~> (toast = NoToast)

C26_Witness ==
  /\ toast = "Driver rejected"
  /\ toastTimer
  /\ lastEvent.type = "DriverRejected"
  /\ connectionState = "Connected"

\* C29: the map holds at most one heat layer and one zoomend listener of
\* HeatLayer; a mounted map with a non-empty point list holds exactly one of
\* each, and with an empty point list, or once the component is unmounted,
\* none.
C29_OneHeatLayerAndListener ==
  /\ heatLayers <= 1
  /\ zoomListeners <= 1
  /\ heatLayers = (IF mapMounted /\ heatPoints # << >> THEN 1 ELSE 0)
  /\ zoomListeners = heatLayers

C29_Witness ==
  /\ mapMounted
  /\ heatMode = "demand"
  /\ Len(heatPoints) = 1
  /\ heatLayers = 1
  /\ zoomListeners = 1
  /\ zoom # InitialZoom

StoredNonAdmin(a) == a.admin_user # NoItem /\ JSONparse(a.admin_user).role # "admin"
SameSession(a, b) ==
  /\ a.token = b.token
  /\ a.user = b.user
  /\ a.admin_token = b.admin_token
  /\ a.admin_user = b.admin_user

\* C21: in every settled state isAuthenticated holds only with a token and a
\* user of role admin, and a visitor who is not authenticated is at /login; a
\* login answered with a non-admin user leaves token, user and both storage
\* keys as they were; after the mount effect of a page load no non-admin user
\* is stored.
C21_OnlyAdminsGetIn ==
  [][/\ ~auth'.isLoading =>
          /\ isAuthenticated(auth') =>
                auth'.token \in Tokens /\ auth'.user \in Users /\ auth'.user.role = "admin"
          /\ ~isAuthenticated(auth') => auth'.path = "/login"
     /\ \A response \in AuthResponses :
          (Login(response) /\ response.user.role # "admin") => SameSession(auth, auth')
     /\ AuthEffect => ~StoredNonAdmin(auth')]_vars

\* C28: local storage holds admin_token exactly when it holds admin_user; an
\* error response with status 401 removes both keys and leaves the browser at
\* /login, an error response with another status leaves both keys as they
\* were.
C28_StorageKeysPaired ==
  [][/\ (auth'.admin_token # NoToken) <=> (auth'.admin_user # NoItem)
     /\ ResponseError(401) =>
          auth'.admin_token = NoToken /\ auth'.admin_user = NoItem /\ auth'.path = "/login"
     /\ \A status \in ResponseStatuses \ {200, 401} :
          ResponseError(status) =>
            auth'.admin_token = auth.admin_token /\ auth'.admin_user = auth.admin_user]_vars

Before(call, first, second) ==
  \A k \in DOMAIN call.sent :
    call.sent[k] = second => \E j \in 1..(k - 1) : call.sent[j] = first

\* C27: in every approveDriver call the capture request is sent first and
\* the approval request only after the capture was answered with success; a
\* failed capture sends no approval request and its error reaches the caller;
\* the pendingDrivers and adminStats groups are invalidated only by the step
\* in which an approval request succeeds.
C27_CaptureThenApprovalThenInvalidation ==
  [][/\ \A id \in Ids :
          LET call == approval'.calls[id]
          IN /\ Before(call, "capture", "approval")
             /\ call.step # "idle" => (call.sent # << >> /\ call.sent[1] = "capture")
             /\ \A ok \in BOOLEAN :
                   CaptureResponds(id, ok) =>
                     IF ok THEN call.sent = <<"capture", "approval">>
                     ELSE call.sent = <<"capture">> /\ call.step = "error" /\ call.thrown = "capture"
     /\ approval'.invalidated \ approval.invalidated # {} =>
          /\ approval'.invalidated \ approval.invalidated \subseteq ApprovalInvalidations
          /\ \E id \in Ids : /\ approval.calls[id].step = "approval"
                              /\ approval'.calls[id].step = "success"]_vars

C27_Witness ==
  /\ approval.calls["D1"].step = "error"
  /\ approval.calls["D1"].sent = <<"capture">>
  /\ approval.calls["D2"].step = "success"
  /\ approval.invalidated = ApprovalInvalidations
  /\ approval.error = "capture failed"

\* C30: while the hook is mounted isSidebarOpen is true on a desktop
\* viewport and equals isMobileOpen otherwise, isOverlay is the negation of
\* isDesktop, and the stored value is '1' or '0' as isMobileOpen is; a change
\* to desktop resets isMobileOpen, and after a change from desktop to mobile
\* the sidebar is closed.
C30_SidebarClosedAfterLeavingDesktop ==
  [][sidebar'.mounted =>
       /\ isSidebarOpen(sidebar') = (sidebar'.isDesktop \/ sidebar'.isMobileOpen)
       /\ isOverlay(sidebar') = ~sidebar'.isDesktop
       /\ sidebar'.isDesktop = sidebar'.matches
       /\ sidebar'.stored = (IF sidebar'.isMobileOpen THEN "1" ELSE "0")
       /\ (sidebar.mounted /\ ~sidebar.isDesktop /\ sidebar'.isDesktop) => ~sidebar'.isMobileOpen
       /\ (sidebar.mounted /\ sidebar.isDesktop /\ ~sidebar'.isDesktop) => ~isSidebarOpen(sidebar')]_vars

====
